---- MODULE Spec2Model ----
(***************************************************************************)
(* The e-commerce platform as state machines: the API gateway              *)
(* (api-gateway/src/index.js, routes/health.js) with its start-up and its  *)
(* path rewrite, the frontend's health poll (App.js), the Jenkins pipeline *)
(* of the README, the inventory and products routes of the product         *)
(* service with the transactions of config/database.js, the orders and     *)
(* cart routes of the order service, and authenticateToken of the user     *)
(* service.                                                                *)
(*                                                                         *)
(* Paths are sequences of path segments: <<"api","products","7">> is       *)
(* /api/products/7 and <<>> is /.  Express mounts match on whole segments, *)
(* so "lies under a prefix" is "has the prefix's segments as its first     *)
(* segments".                                                              *)
(***************************************************************************)
EXTENDS Integers, Sequences, FiniteSets, TLC

(* ------------------------------ bounds --------------------------------- *)
\* The limiter's max (300 in the source), scaled down so that the model
\* reaches and passes it.
LimiterMax == 2
\* Requests that are forwarded and not yet answered, at most.
MaxInFlight == 2
\* Upstreams that are not up at the same time, at most.
MaxDown == 1

(* ------------------------------ inputs --------------------------------- *)
Upstreams == {"user", "product", "order"}
Clients == {"c1", "c2"}
Methods == {"GET", "POST"}
Paths ==
  { <<>>, <<"health">>, <<"api", "users">>, <<"api", "products">>,
    <<"api", "products", "7">>, <<"api", "orders">>, <<"api", "unknown">> }
\* What an upstream that answers may answer.
UpstreamAnswers ==
  { [status |-> 200, body |-> "ok"],
    [status |-> 404, body |-> "no such item"],
    [status |-> 500, body |-> "upstream failed"] }
\* up: the upstream answers.  failing: the outbound call ends in an error
\* event (one of ErrorCodes).  silent: the upstream takes the connection and
\* never answers, so no event ever comes.
Modes == {"up", "failing", "silent"}
DownModes == Modes \ {"up"}
\* connection refused, DNS failure, the operating system's connect timeout
ErrorCodes == {"ECONNREFUSED", "ENOTFOUND", "ETIMEDOUT"}
NodeEnvs == {"development", "production"}
\* What an environment variable such as USER_SERVICE_URL may hold: nothing,
\* the empty string, the URL of the service, a URL whose host does not
\* resolve, or text that is no URL.
EnvValues == {"unset", "empty", "valid", "unresolvable", "malformed"}
\* The services the frontend polls, in the order of its list.
Services == <<"API Gateway", "User Service", "Product Service", "Order Service">>
\* How a fetch ends: a 2xx response, another response, a rejection, or never.
FetchOutcomes == {"ok", "notOk", "throws"}

VARIABLES
  nodeEnv,    \* process.env.NODE_ENV
  hits,       \* the limiter's store: client -> requests counted in this window
  admitted,   \* per client, requests of this window the limiter passed on
  rejected,   \* per client, requests of this window the limiter answered 429
  pending,    \* the requests forwarded to an upstream and not yet answered
  outbound,   \* proxied path -> outbound calls made for its request in flight
  mode,       \* upstream -> how it behaves now
  resp,       \* the response the gateway sent last
  phase,      \* start-up of the gateway: how far index.js has run
  envUrl,     \* upstream -> the value of its *_SERVICE_URL variable
  target,     \* upstream -> the target its proxy was created with
  pollPc,     \* checkHealth of the frontend: where it stands
  pollIdx,    \* the service the loop of checkHealth is at
  issued,     \* the services whose fetch this checkHealth has started
  status,     \* the local object status of checkHealth
  healthStatus, \* the component's state healthStatus
  loading,    \* the component's state loading
  inboundPath,  \* path rewrite: the path of the request the proxy was handed
  upstreamPath, \* path rewrite: the path of the outbound call
  params,     \* Jenkins build: the parameters it was started with
  pipePc,     \* Jenkins build: in its stages, in its post section, or done
  stageIdx,   \* Jenkins build: the stage it is at
  ran,        \* Jenkins build: the stages whose steps were executed
  failedAt,   \* Jenkins build: the stage whose steps failed
  approval,   \* Jenkins build: what the input step of the approval returned
  result,     \* Jenkins build: currentBuild.result
  deployed,   \* environment -> the version it runs
  inventory,  \* table inventory: product -> its row, or NoRow
  rowLock,    \* product -> the transaction that holds the lock of its row
  txn,        \* request -> how far its handler and its transaction have come
  initialReserved, \* reserved_quantity of the stocked product at the start
  netReserved, \* units reserved less units released, by the requests answered 200
  products,   \* table products: id -> its row, or Absent
  prodResp    \* the response the products routes sent last

gatewayVars == <<nodeEnv, hits, admitted, rejected, pending, outbound, mode, resp>>
bootVars == <<phase, envUrl, target>>
pollVars == <<pollPc, pollIdx, issued, status, healthStatus, loading>>
rewriteVars == <<inboundPath, upstreamPath>>
pipelineVars == <<params, pipePc, stageIdx, ran, failedAt, approval, result, deployed>>
inventoryVars == <<inventory, rowLock, txn, initialReserved, netReserved>>
productVars == <<products, prodResp>>

\* order-service, routes/orders.js: the orders and order_items tables, the
\* POST /api/orders request in progress, the last response of the router
VARIABLES orders, orderItems, wanted, creating, ordResp
orderVars == <<orders, orderItems, wanted, creating, ordResp>>

\* user-service, routes/users.js: the environment of the process, the request
\* before authenticateToken, and what the middleware and the handler did
VARIABLES jwtSecretSet, authReq, authResp, reqUser, handlerRan
authVars == <<jwtSecretSet, authReq, authResp, reqUser, handlerRan>>

\* order-service, routes/cart.js: the cart_items rows of one (user_id,
\* product_id), the POST /api/cart requests in progress, the router's answers
VARIABLES cartUnique, cartRows, cartReq, cartAdded, cartResp
cartVars == <<cartUnique, cartRows, cartReq, cartAdded, cartResp>>

\* product-service, routes/inventory.js: the answer of PUT
\* /api/inventory/:productId and the number of such requests so far
VARIABLES putResp, putCount
putVars == <<putResp, putCount>>

commerceVars == <<orderVars, authVars, cartVars, putVars>>
platformVars == <<rewriteVars, pipelineVars, inventoryVars, productVars, commerceVars>>
frontVars == <<gatewayVars, bootVars, pollVars>>
vars == <<gatewayVars, bootVars, pollVars, platformVars>>

(* ------------------------------ routing -------------------------------- *)
IsUnder(path, prefix) ==
  /\ Len(path) >= Len(prefix)
  /\ SubSeq(path, 1, Len(prefix)) = prefix

\* app.use(prefix, proxy), in mount order
RouteTable ==
  << [prefix |-> <<"api", "users">>,      upstream |-> "user"],
     [prefix |-> <<"api", "auth">>,       upstream |-> "user"],
     [prefix |-> <<"api", "products">>,   upstream |-> "product"],
     [prefix |-> <<"api", "categories">>, upstream |-> "product"],
     [prefix |-> <<"api", "inventory">>,  upstream |-> "product"],
     [prefix |-> <<"api", "orders">>,     upstream |-> "order"],
     [prefix |-> <<"api", "cart">>,       upstream |-> "order"] >>

Matching(path) == {i \in 1..Len(RouteTable) : IsUnder(path, RouteTable[i].prefix)}

\* A proxy answers or forwards every request it is given, so the first mount
\* that matches takes the request.
ProxyForWrongOrder(path) ==
  IF Matching(path) = {} THEN "none"
  ELSE LET i == CHOOSE j \in Matching(path) : \A k \in Matching(path) : j <= k
       IN  RouteTable[Len(RouteTable) + 1 - i].upstream

ProxyFor(path) ==
  IF Matching(path) = {} THEN "none"
  ELSE LET i == CHOOSE j \in Matching(path) : \A k \in Matching(path) : j <= k
       IN  RouteTable[i].upstream

\* the paths of the model that some proxy takes
ProxiedPaths == {p \in Paths : ProxyFor(p) # "none"}

(* ------------------------------ limiter -------------------------------- *)
\* app.use('/api/', limiter)
LimiterApplies(path) == IsUnder(path, <<"api">>)

\* A client sends one request more than the limiter admits, at most, before
\* the window ends: enough for the request after the last admitted one.
HitsCap == LimiterMax + 1

LimiterAdmitsOffByOne(totalHits) == totalHits <= LimiterMax + 1

LimiterAdmitsStrict(totalHits) == totalHits < LimiterMax

\* the store counts the request first; the request is refused when the
\* count then exceeds max
LimiterAdmits(totalHits) == totalHits <= LimiterMax

(* ----------------------------- responses ------------------------------- *)
NoneSent == [status |-> 0, body |-> "none"]
NoResp ==
  [path |-> <<>>, status |-> 0, body |-> "none", from |-> "none",
   sent |-> NoneSent, detail |-> "none"]

\* A response written by the gateway's own code.  detail: what internal
\* information the payload carries.  sent: what the upstream sent, for a
\* response that answers a forwarded request.
Own(path, statusCode, body, detail) ==
  [path |-> path, status |-> statusCode, body |-> body, from |-> "gateway",
   sent |-> NoneSent, detail |-> detail]

TooMany(path) ==
  Own(path, 429, "Too many requests from this IP, please try again later.", "none")

RootEndpoint(path) == Own(path, 200, "API Gateway", "upstreamUrls")

NotFoundNoStatus(path) == Own(path, 200, "Endpoint not found", "none")

NotFound(path) == Own(path, 404, "Endpoint not found", "none")

ErrorHandler(path) ==
  Own(path, 500, "Internal Server Error",
      IF nodeEnv = "development" THEN "errorMessage" ELSE "none")

UnavailableBody ==
  [u \in Upstreams |->
     CASE u = "user" -> "User service unavailable"
       [] u = "product" -> "Product service unavailable"
       [] u = "order" -> "Order service unavailable"]

OnError(path, u) ==
  [path |-> path, status |-> 503, body |-> UnavailableBody[u], from |-> u,
   sent |-> NoneSent, detail |-> "none"]

\* the proxy pipes the upstream's response, cut short for a client that has
\* used up its allowance
RelayThrottlesBody(path, u, statusCode, body) ==
  [path |-> path, status |-> statusCode,
   body |-> IF \E c \in Clients : hits[c] >= LimiterMax THEN "partial" ELSE body,
   from |-> u, sent |-> NoneSent, detail |-> "none"]

\* the proxy pipes the upstream's response to the client
RelayRewritesErrors(path, u, statusCode, body) ==
  [path |-> path, status |-> IF statusCode >= 500 THEN 502 ELSE statusCode,
   body |-> IF statusCode >= 500 THEN "Bad gateway" ELSE body, from |-> u,
   sent |-> NoneSent, detail |-> "none"]

Relay(path, u, statusCode, body) ==
  [path |-> path, status |-> statusCode, body |-> body, from |-> u,
   sent |-> NoneSent, detail |-> "none"]

(* ------------------------- routes/health.js ---------------------------- *)
HealthRootLooksAtUpstreams(path, throws) ==
  IF throws
  THEN Own(path, 503, "unhealthy", "errorMessage")
  ELSE IF \A u \in Upstreams : mode[u] = "up"
       THEN Own(path, 200, "healthy", "none")
       ELSE Own(path, 503, "degraded", "none")

\* router.get('/'): the try block, or the catch block when it throws
HealthRoot(path, throws) ==
  IF throws
  THEN Own(path, 503, "unhealthy", "errorMessage")
  ELSE Own(path, 200, "healthy", "none")

HealthRoutes(method, path, throws) ==
  IF method = "GET" /\ path = <<"health">> THEN HealthRoot(path, throws)
  ELSE IF method = "GET" /\ path = <<"health", "ready">> THEN Own(path, 200, "ready", "none")
  ELSE IF method = "GET" /\ path = <<"health", "live">> THEN Own(path, 200, "alive", "none")
  ELSE NotFound(path)

(* ------------------------ the middleware chain ------------------------- *)
\* What the middlewares after the limiter do with a request: a response, or
\* the upstream to forward to.
Chain(method, path, bodyOk, throws) ==
  IF ~bodyOk THEN [fwd |-> "none", resp |-> ErrorHandler(path)]
  ELSE IF IsUnder(path, <<"health">>)
       THEN [fwd |-> "none", resp |-> HealthRoutes(method, path, throws)]
  ELSE IF ProxyFor(path) # "none"
       THEN [fwd |-> ProxyFor(path), resp |-> NoResp]
  ELSE IF method = "GET" /\ path = <<>>
       THEN [fwd |-> "none", resp |-> RootEndpoint(path)]
  ELSE [fwd |-> "none", resp |-> NotFound(path)]

\* The requests the model sends.  Only a POST carries a body, which may fail
\* to parse; the handler of /health can only throw for a request that
\* reaches it.
Requests ==
  {r \in [method : Methods, path : Paths, bodyOk : BOOLEAN, throws : BOOLEAN] :
     /\ ~r.bodyOk => r.method = "POST"
     /\ r.throws => (r.method = "GET" /\ r.path = <<"health">>)}

\* no outbound path yet
NoPath == <<"-">>

RewriteIdle ==
  /\ inboundPath = <<>>
  /\ upstreamPath = NoPath

Environments == {"staging", "production"}

PipelineStart ==
  /\ pipePc = "stages"
  /\ stageIdx = 1
  /\ ran = {}
  /\ failedAt = "none"
  /\ approval = "none"
  /\ result = "none"
  /\ deployed = [e \in Environments |-> "previous"]

PipelineIdle ==
  /\ params = [ENVIRONMENT |-> "staging", SKIP_TESTS |-> FALSE, FORCE_DEPLOY |-> FALSE]
  /\ PipelineStart

\* The requests to the inventory routes that may be under way together,
\* and the products: one with a row in inventory, one without.
Txns == {"t1", "t2"}
StockedProduct == "p1"
UnknownProduct == "p9"
InventoryProducts == {StockedProduct, UnknownProduct}
NoRow == [quantity |-> -1, reserved_quantity |-> -1]

NoTxn ==
  [pc |-> "idle", op |-> "none", product |-> StockedProduct, amount |-> 0,
   seen |-> NoRow, wrote |-> FALSE, outcome |-> "none", status |-> 0, error |-> "none"]

InventoryStart ==
  /\ rowLock = [p \in InventoryProducts |-> "none"]
  /\ txn = [t \in Txns |-> NoTxn]
  /\ netReserved = 0

InventoryIdle ==
  /\ inventory = [p \in InventoryProducts |->
                    IF p = StockedProduct
                    THEN [quantity |-> 0, reserved_quantity |-> 0] ELSE NoRow]
  /\ initialReserved = 0
  /\ InventoryStart

\* Rows the table products may come to hold.
MaxProducts == 3
ProductIds == 1..MaxProducts
\* activeSetBy is no column: it names the statement that set is_active last.
Absent == [is_active |-> FALSE, activeSetBy |-> "none"]
NoProdResp == [op |-> "none", id |-> 0, status |-> 0, listed |-> {}]

ProductsIdle ==
  /\ products = [id \in ProductIds |->
                   IF id = 1 THEN [is_active |-> TRUE, activeSetBy |-> "INSERT"] ELSE Absent]
  /\ prodResp = NoProdResp

\* the programs beside the gateway and the frontend, before they run
\* orders.js:121 validStatuses, and cart.js:175 the ENUM of orders.status
ValidStatuses == {"pending", "confirmed", "processing", "shipped", "delivered", "cancelled"}
SchemaStatuses == ValidStatuses \cup {"refunded"}

MaxItems == 2
\* the ids of orders: the sample order of init.sql and the next AUTO_INCREMENT id
SeedOrder == 1
NewOrder == 2
OrderIds == {SeedOrder, NewOrder}
NoOrder == "none"
NotCreating == [pc |-> "idle", id |-> 0]
NoOrdResp == [op |-> "none", id |-> 0, code |-> 0, was |-> NoOrder, asked |-> NoOrder]

\* the sample rows of init.sql: order 1 is delivered and has two items
OrdersStart ==
  /\ orders = [id \in OrderIds |-> IF id = SeedOrder THEN "delivered" ELSE NoOrder]
  /\ orderItems = [id \in OrderIds |-> IF id = SeedOrder THEN 2 ELSE 0]
  /\ wanted = [id \in OrderIds |-> IF id = SeedOrder THEN 2 ELSE 0]
  /\ creating = NotCreating
  /\ ordResp = NoOrdResp

OrdersIdle == OrdersStart

NoAuthReq == [route |-> "none", header |-> "none", pc |-> "none"]

AuthStart ==
  /\ authReq = NoAuthReq
  /\ authResp = 0
  /\ reqUser = "unset"
  /\ handlerRan = FALSE

AuthIdle ==
  /\ jwtSecretSet = TRUE
  /\ AuthStart

CartClients == {"a", "b"}
NoCartReq == [pc |-> "idle", quantity |-> 0, existing |-> FALSE]
NoCartResp == [op |-> "none", code |-> 0]

CartStart ==
  /\ cartRows = <<>>
  /\ cartReq = [c \in CartClients |-> NoCartReq]
  /\ cartAdded = 0
  /\ cartResp = NoCartResp

CartIdle ==
  /\ cartUnique = FALSE
  /\ CartStart

PutIdle == putResp = 0 /\ putCount = 0

CommerceIdle ==
  /\ OrdersIdle
  /\ AuthIdle
  /\ CartIdle
  /\ PutIdle

PlatformIdle ==
  /\ CommerceIdle
  /\ RewriteIdle
  /\ PipelineIdle
  /\ InventoryIdle
  /\ ProductsIdle

PollIdle ==
  /\ pollPc = "idle"
  /\ pollIdx = 1
  /\ issued = {}
  /\ status = [i \in {} |-> "none"]
  /\ healthStatus = [i \in {} |-> "none"]
  /\ loading = TRUE

\* the gateway listening with nothing received yet and the frontend before
\* its first poll
FrontIdle ==
  /\ nodeEnv = "production"
  /\ hits = [c \in Clients |-> 0]
  /\ admitted = [c \in Clients |-> 0]
  /\ rejected = [c \in Clients |-> 0]
  /\ pending = {}
  /\ outbound = [p \in ProxiedPaths |-> 0]
  /\ mode = [u \in Upstreams |-> "up"]
  /\ resp = NoResp
  /\ phase = "listening"
  /\ envUrl = [u \in Upstreams |-> "unset"]
  /\ target = [u \in Upstreams |-> "default"]
  /\ PollIdle

Init ==
  /\ nodeEnv \in NodeEnvs
  /\ hits = [c \in Clients |-> 0]
  /\ admitted = [c \in Clients |-> 0]
  /\ rejected = [c \in Clients |-> 0]
  /\ pending = {}
  /\ outbound = [p \in ProxiedPaths |-> 0]
  /\ mode = [u \in Upstreams |-> "up"]
  /\ resp = NoResp
  /\ phase = "listening"
  /\ envUrl = [u \in Upstreams |-> "unset"]
  /\ target = [u \in Upstreams |-> "default"]
  /\ PollIdle
  /\ PlatformIdle

\* One inbound request, from the limiter to the response or the forward.
\* A forwarded request is known by its path: the model forwards a path again
\* only after the earlier request for it was answered.
GatewayRequest(c, r) ==
  LET limited == LimiterApplies(r.path)
      totalHits == hits[c] + 1
      out == Chain(r.method, r.path, r.bodyOk, r.throws)
  IN  /\ phase = "listening"
      /\ limited => hits[c] < HitsCap
      /\ UNCHANGED <<bootVars, pollVars, platformVars>>
      /\ hits' = IF limited THEN [hits EXCEPT ![c] = totalHits] ELSE hits
      /\ UNCHANGED <<nodeEnv, mode>>
      /\ IF limited /\ ~LimiterAdmits(totalHits)
         THEN /\ rejected' = [rejected EXCEPT ![c] = @ + 1]
              /\ resp' = TooMany(r.path)
              /\ UNCHANGED <<admitted, pending, outbound>>
         ELSE /\ admitted' = IF limited THEN [admitted EXCEPT ![c] = @ + 1] ELSE admitted
              /\ UNCHANGED rejected
              /\ IF out.fwd = "none"
                 THEN resp' = out.resp /\ UNCHANGED <<pending, outbound>>
                 ELSE /\ Cardinality(pending) < MaxInFlight
                      /\ \A q \in pending : q.path # r.path
                      /\ pending' = pending \cup {[path |-> r.path, up |-> out.fwd]}
                      /\ outbound' = [outbound EXCEPT ![r.path] = @ + 1]
                      /\ UNCHANGED resp

\* The upstream answers a forwarded request.
UpstreamRespond(q, a) ==
  /\ q \in pending
  /\ mode[q.up] = "up"
  /\ resp' = [Relay(q.path, q.up, a.status, a.body) EXCEPT !.sent = a]
  /\ pending' = pending \ {q}
  /\ outbound' = [outbound EXCEPT ![q.path] = 0]
  /\ UNCHANGED <<nodeEnv, hits, admitted, rejected, mode>>
  /\ UNCHANGED <<bootVars, pollVars, platformVars>>

\* The outbound call of a forwarded request fails and the error ends the
\* process, with every request in flight.
ProxyErrorEndsProcess(q, code) ==
  /\ q \in pending
  /\ mode[q.up] = "failing"
  /\ phase' = "exited"
  /\ pending' = {}
  /\ outbound' = [p \in ProxiedPaths |-> 0]
  /\ UNCHANGED <<nodeEnv, hits, admitted, rejected, mode, resp>>
  /\ UNCHANGED <<envUrl, target, pollVars, platformVars>>

\* The outbound call of a forwarded request fails and onError calls the
\* proxy once more before it gives up.
ProxyErrorRetriesOnce(q, code) ==
  /\ q \in pending
  /\ mode[q.up] = "failing"
  /\ IF outbound[q.path] < 2
     THEN /\ outbound' = [outbound EXCEPT ![q.path] = @ + 1]
          /\ UNCHANGED <<resp, pending>>
     ELSE /\ resp' = OnError(q.path, q.up)
          /\ pending' = pending \ {q}
          /\ outbound' = [outbound EXCEPT ![q.path] = 0]
  /\ UNCHANGED <<nodeEnv, hits, admitted, rejected, mode>>
  /\ UNCHANGED <<bootVars, pollVars, platformVars>>

\* The outbound call of a forwarded request fails: the proxy's onError runs.
\* It writes the 503 and ends the request; nothing calls the upstream again.
ProxyError(q, code) ==
  /\ q \in pending
  /\ mode[q.up] = "failing"
  /\ resp' = OnError(q.path, q.up)
  /\ pending' = pending \ {q}
  /\ outbound' = [outbound EXCEPT ![q.path] = 0]
  /\ UNCHANGED <<nodeEnv, hits, admitted, rejected, mode>>
  /\ UNCHANGED <<bootVars, pollVars, platformVars>>

\* windowMs has passed: the store forgets its counts.
WindowReset ==
  /\ \E c \in Clients : hits[c] > 0
  /\ hits' = [c \in Clients |-> 0]
  /\ admitted' = [c \in Clients |-> 0]
  /\ rejected' = [c \in Clients |-> 0]
  /\ UNCHANGED <<nodeEnv, pending, outbound, mode, resp>>
  /\ UNCHANGED <<bootVars, pollVars, platformVars>>

\* An upstream stops, starts or changes the way it fails.
UpstreamChange(u, m) ==
  /\ mode[u] # m
  /\ Cardinality({v \in Upstreams \ {u} : mode[v] # "up"}) + (IF m = "up" THEN 0 ELSE 1) <= MaxDown
  /\ mode' = [mode EXCEPT ![u] = m]
  /\ UNCHANGED <<nodeEnv, hits, admitted, rejected, pending, outbound, resp>>
  /\ UNCHANGED <<bootVars, pollVars, platformVars>>

\* The gateway with all its requests coming from one client.
Next ==
  \/ \E r \in Requests : GatewayRequest("c1", r)
  \/ \E q \in pending, a \in UpstreamAnswers : UpstreamRespond(q, a)
  \/ \E q \in pending, code \in ErrorCodes : ProxyError(q, code)
  \/ WindowReset
  \/ \E u \in Upstreams, m \in Modes : UpstreamChange(u, m)

Spec == Init /\ [][Next]_vars

\* The gateway with requests from every client, all upstreams up: what the
\* limiter does with the clients' counts.
LimiterPaths == {<<>>, <<"api", "users">>, <<"api", "orders">>, <<"api", "unknown">>}

LimiterNext ==
  \/ \E c \in Clients, r \in {x \in Requests : x.path \in LimiterPaths} : GatewayRequest(c, r)
  \/ \E q \in pending, a \in UpstreamAnswers : UpstreamRespond(q, a)
  \/ WindowReset

LimiterSpec == Init /\ [][LimiterNext]_vars

\* Node delivers every event that is ready: the upstream's response and the
\* outbound call's error reach the proxy.  Nothing obliges a client to send
\* a request or an upstream to change.
PendingKeys == {[path |-> p, up |-> ProxyFor(p)] : p \in {x \in Paths : ProxyFor(x) # "none"}}

FairSpec ==
  /\ Spec
  /\ \A q \in PendingKeys :
       /\ WF_vars(\E a \in UpstreamAnswers : UpstreamRespond(q, a))
       /\ WF_vars(\E code \in ErrorCodes : ProxyError(q, code))

(* ------------------------------ start-up ------------------------------- *)
\* createProxyMiddleware(...) are called in this order
ProxyOrder == <<"user", "product", "order">>

\* process.env.X_SERVICE_URL || 'http://x-service:300n'
TargetOf(env) == IF env \in {"unset", "empty"} THEN "default" ELSE env

BootInit ==
  /\ nodeEnv \in NodeEnvs
  /\ hits = [c \in Clients |-> 0]
  /\ admitted = [c \in Clients |-> 0]
  /\ rejected = [c \in Clients |-> 0]
  /\ pending = {}
  /\ outbound = [p \in ProxiedPaths |-> 0]
  /\ mode = [u \in Upstreams |-> "up"]
  /\ resp = NoResp
  /\ phase = "boot"
  /\ envUrl \in [Upstreams -> EnvValues]
  /\ target = [u \in Upstreams |-> "none"]
  /\ PollIdle
  /\ PlatformIdle

\* const xServiceProxy = createProxyMiddleware({target: ...}): the factory
\* refuses only an absent target, and the default keeps the target present.
CreateProxy(i) ==
  /\ phase = "boot"
  /\ target[ProxyOrder[i]] = "none"
  /\ \A j \in 1..(i - 1) : target[ProxyOrder[j]] # "none"
  /\ target' = [target EXCEPT ![ProxyOrder[i]] = TargetOf(envUrl[ProxyOrder[i]])]
  /\ phase' = IF i = Len(ProxyOrder) THEN "proxies" ELSE "boot"
  /\ UNCHANGED <<envUrl, gatewayVars, pollVars, platformVars>>

\* app.use('/api/users', userServiceProxy) ... app.use(error handler)
MountRoutes ==
  /\ phase = "proxies"
  /\ phase' = "mounted"
  /\ UNCHANGED <<envUrl, target, gatewayVars, pollVars, platformVars>>

\* app.listen(PORT, ...)
Listen ==
  /\ phase = "mounted"
  /\ phase' = "listening"
  /\ UNCHANGED <<envUrl, target, gatewayVars, pollVars, platformVars>>

BootNext ==
  \/ \E i \in 1..Len(ProxyOrder) : CreateProxy(i)
  \/ MountRoutes
  \/ Listen

BootSpec == BootInit /\ [][BootNext]_vars

(* ----------------------- the frontend's checkHealth -------------------- *)
\* checkHealth is called (on mount, by the interval, by the button)
StartCheck ==
  /\ pollPc = "idle"
  /\ pollPc' = "loop"
  /\ pollIdx' = 1
  /\ issued' = {}
  /\ status' = [i \in {} |-> "none"]
  /\ UNCHANGED <<healthStatus, loading, gatewayVars, bootVars, platformVars>>

\* for (const service of services) { ... await fetch(service.url)
IssueFetch ==
  /\ pollPc = "loop"
  /\ pollIdx <= Len(Services)
  /\ issued' = issued \cup {Services[pollIdx]}
  /\ pollPc' = "awaiting"
  /\ UNCHANGED <<pollIdx, status, healthStatus, loading, gatewayVars, bootVars, platformVars>>

StatusOf(outcome) ==
  CASE outcome = "ok" -> "Healthy"
    [] outcome = "notOk" -> "Unhealthy"
    [] outcome = "throws" -> "Unavailable"

\* the awaited fetch settles; a fetch that never settles leaves the loop here
FetchSettles(outcome) ==
  /\ pollPc = "awaiting"
  /\ status' = [n \in DOMAIN status \cup {Services[pollIdx]} |->
                  IF n = Services[pollIdx] THEN StatusOf(outcome) ELSE status[n]]
  /\ pollIdx' = pollIdx + 1
  /\ pollPc' = "loop"
  /\ UNCHANGED <<issued, healthStatus, loading, gatewayVars, bootVars, platformVars>>

\* setHealthStatus(status); setLoading(false)
FinishCheck ==
  /\ pollPc = "loop"
  /\ pollIdx > Len(Services)
  /\ healthStatus' = status
  /\ loading' = FALSE
  /\ pollPc' = "idle"
  /\ UNCHANGED <<pollIdx, issued, status, gatewayVars, bootVars, platformVars>>

PollNext ==
  \/ StartCheck
  \/ IssueFetch
  \/ \E outcome \in FetchOutcomes : FetchSettles(outcome)
  \/ FinishCheck

PollSpec == Init /\ [][PollNext]_vars

(* --------------------------- the path rewrite -------------------------- *)
\* Segments a client may put after a mounted prefix, and how many.
MaxSuffix == 2
Segs == {"1", "me", "reserve"}
Suffixes == UNION {[1..n -> Segs] : n \in 0..MaxSuffix}

\* the inbound paths that lie under a mounted prefix
InboundPaths == {RouteTable[i].prefix \o x : i \in 1..Len(RouteTable), x \in Suffixes}

\* pathRewrite: { '^/api/users': '/api/users', ... } of each proxy, in the
\* order of the object's keys
PathRewriteRules ==
  [ user    |-> << [regex |-> <<"api", "users">>,      value |-> <<"api", "users">>],
                   [regex |-> <<"api", "auth">>,       value |-> <<"api", "auth">>] >>,
    product |-> << [regex |-> <<"api", "products">>,   value |-> <<"api", "products">>],
                   [regex |-> <<"api", "categories">>, value |-> <<"api", "categories">>],
                   [regex |-> <<"api", "inventory">>,  value |-> <<"api", "inventory">>] >>,
    order   |-> << [regex |-> <<"api", "orders">>,     value |-> <<"api", "orders">>],
                   [regex |-> <<"api", "cart">>,       value |-> <<"api", "cart">>] >> ]

\* express hands a mounted middleware req.url without the mount's prefix and
\* keeps the whole path in req.originalUrl
MountedUrl(path, prefix) == SubSeq(path, Len(prefix) + 1, Len(path))

\* the rewrite with every rule's value left empty
PathRewriteStripsPrefix(u, path) ==
  LET rules == PathRewriteRules[u]
      hit == {i \in 1..Len(rules) : IsUnder(path, rules[i].regex)}
  IN  IF hit = {} THEN path
      ELSE LET i == CHOOSE j \in hit : \A k \in hit : j <= k
           IN  MountedUrl(path, rules[i].regex)

\* The first rule whose pattern matches the start of the path replaces the
\* matched part by its value; a path no rule matches is left as it is.
PathRewrite(u, path) ==
  LET rules == PathRewriteRules[u]
      hit == {i \in 1..Len(rules) : IsUnder(path, rules[i].regex)}
  IN  IF hit = {} THEN path
      ELSE LET i == CHOOSE j \in hit : \A k \in hit : j <= k
           IN  rules[i].value \o MountedUrl(path, rules[i].regex)

\* The proxy restores req.url from req.originalUrl before it rewrites, so the
\* rewrite sees the whole inbound path.
ProxyReqPath(path) == PathRewrite(ProxyFor(path), path)

RewriteInit ==
  /\ FrontIdle
  /\ CommerceIdle
  /\ inboundPath \in InboundPaths
  /\ upstreamPath = NoPath
  /\ PipelineIdle
  /\ InventoryIdle
  /\ ProductsIdle

\* the proxy takes the request and makes the outbound call
ProxyRewrite ==
  /\ upstreamPath = NoPath
  /\ ProxyFor(inboundPath) # "none"
  /\ upstreamPath' = ProxyReqPath(inboundPath)
  /\ UNCHANGED <<inboundPath, frontVars, pipelineVars, inventoryVars, productVars, commerceVars>>

RewriteNext == ProxyRewrite

RewriteSpec == RewriteInit /\ [][RewriteNext]_vars

(* ------------------------- the Jenkins pipeline ------------------------ *)
\* parameters { choice ENVIRONMENT, booleanParam SKIP_TESTS, FORCE_DEPLOY }
Params == [ENVIRONMENT : Environments, SKIP_TESTS : BOOLEAN, FORCE_DEPLOY : BOOLEAN]

\* stages { ... }, in their order.  The two parallel branches of Code
\* Quality are one stage here: it fails when one of them fails.
Stages ==
  << "Checkout", "Code Quality", "Unit Tests", "Integration Tests",
     "Build Docker Images", "Deploy to Staging", "Staging Tests",
     "Production Approval", "Deploy to Production", "Production Tests",
     "Performance Tests" >>

TestStages == {"Unit Tests", "Integration Tests"}
StagingStages == {"Deploy to Staging", "Staging Tests"}
ProductionStages ==
  {"Production Approval", "Deploy to Production", "Production Tests", "Performance Tests"}

\* the when { } of a stage; a stage without one always runs
When(name) ==
  IF name \in TestStages THEN ~params.SKIP_TESTS
  ELSE IF name \in StagingStages THEN params.ENVIRONMENT = "staging"
  ELSE IF name \in ProductionStages THEN params.ENVIRONMENT = "production"
  ELSE TRUE

\* The environment a stage deploys to, if it deploys.
DeploysTo(name) ==
  IF name = "Deploy to Staging" THEN "staging"
  ELSE IF name = "Deploy to Production" THEN "production"
  ELSE "none"

\* What the steps of a stage leave behind.  terraform apply and the ansible
\* playbook change the environment as they go: a deployment that fails has
\* changed nothing yet (applied = FALSE) or a part of it.
Effect(name, ok, applied) ==
  IF DeploysTo(name) = "none" THEN deployed
  ELSE [deployed EXCEPT ![DeploysTo(name)] =
          IF ok THEN "new" ELSE IF applied THEN "partial" ELSE @]

\* the build goes on to the next stage, or to the post section after the last
Advance ==
  /\ stageIdx' = stageIdx + 1
  /\ pipePc' = IF stageIdx = Len(Stages) THEN "post" ELSE "stages"

\* the build leaves its stages: the ones that remain are not executed
Leave(outcome, name) ==
  /\ result' = outcome
  /\ failedAt' = name
  /\ pipePc' = "post"
  /\ UNCHANGED stageIdx

PipelineInit ==
  /\ FrontIdle
  /\ CommerceIdle
  /\ RewriteIdle
  /\ InventoryIdle
  /\ ProductsIdle
  /\ params \in Params
  /\ PipelineStart

\* the steps of a stage whose when { } holds: every sh ends with 0, or one
\* of them does not
RunStage(ok, applied) ==
  /\ pipePc = "stages"
  /\ Stages[stageIdx] # "Production Approval"
  /\ When(Stages[stageIdx])
  /\ applied => (~ok /\ DeploysTo(Stages[stageIdx]) # "none")
  /\ ran' = ran \cup {Stages[stageIdx]}
  /\ deployed' = Effect(Stages[stageIdx], ok, applied)
  /\ IF ok
     THEN Advance /\ UNCHANGED <<result, failedAt>>
     ELSE Leave("FAILURE", Stages[stageIdx])
  /\ UNCHANGED <<params, approval, frontVars, rewriteVars, inventoryVars, productVars, commerceVars>>

\* a stage whose when { } does not hold
SkipStage ==
  /\ pipePc = "stages"
  /\ ~When(Stages[stageIdx])
  /\ Advance
  /\ UNCHANGED <<params, ran, failedAt, approval, result, deployed, frontVars, rewriteVars, inventoryVars, productVars, commerceVars>>

\* the input step that goes on whatever was answered
ApprovalInputNotAwaited(decision) ==
  /\ pipePc = "stages"
  /\ Stages[stageIdx] = "Production Approval"
  /\ When(Stages[stageIdx])
  /\ ran' = ran \cup {Stages[stageIdx]}
  /\ approval' = decision
  /\ Advance
  /\ UNCHANGED <<params, result, failedAt, deployed, frontVars, rewriteVars, inventoryVars, productVars, commerceVars>>

\* stage('Production Approval'): input(...) waits for a person.  Proceed
\* lets the stage end; Abort, or the build's timeout while it waits, ends
\* the build as aborted.
ApprovalInput(decision) ==
  /\ pipePc = "stages"
  /\ Stages[stageIdx] = "Production Approval"
  /\ When(Stages[stageIdx])
  /\ ran' = ran \cup {Stages[stageIdx]}
  /\ approval' = decision
  /\ IF decision = "granted"
     THEN Advance /\ UNCHANGED <<result, failedAt>>
     ELSE Leave("ABORTED", Stages[stageIdx])
  /\ UNCHANGED <<params, deployed, frontVars, rewriteVars, inventoryVars, productVars, commerceVars>>

\* post { always, success, failure, cleanup }: images removed, a
\* notification sent, the workspace cleaned.  No step touches an environment.
PostActions ==
  /\ pipePc = "post"
  /\ result' = IF result = "none" THEN "SUCCESS" ELSE result
  /\ pipePc' = "done"
  /\ UNCHANGED <<params, stageIdx, ran, failedAt, approval, deployed, frontVars, rewriteVars, inventoryVars, productVars, commerceVars>>

PipelineNext ==
  \/ \E ok \in BOOLEAN, applied \in BOOLEAN : RunStage(ok, applied)
  \/ SkipStage
  \/ \E decision \in {"granted", "aborted"} : ApprovalInput(decision)
  \/ PostActions

PipelineSpec == PipelineInit /\ [][PipelineNext]_vars

(* ----------------- product service: routes/inventory.js ---------------- *)
\* Units in stock and units one request asks for, at most.
MaxQuantity == 2
MaxAmount == 2
Amounts == 1..MaxAmount
InventoryOps == {"reserve", "release"}

AvailableQuantityIgnoresReserved(row) == row.quantity

\* const availableQuantity = currentInventory.quantity - currentInventory.reserved_quantity
AvailableQuantity(row) == row.quantity - row.reserved_quantity

\* SELECT ... without FOR UPDATE waits for nobody
CanLockAlways(t, p) == TRUE

\* SELECT ... FOR UPDATE waits while another transaction holds the row's lock
CanLock(t, p) == rowLock[p] \in {"none", t}

\* what the callback of database.transaction throws after its SELECT
Thrown(op, amount, row) ==
  IF row = NoRow THEN "Product not found"
  ELSE IF op = "reserve" /\ AvailableQuantity(row) < amount THEN "Insufficient inventory"
  ELSE IF op = "release" /\ row.reserved_quantity < amount
       THEN "Cannot release more than reserved quantity"
  ELSE "none"

\* the catch block of the route: the status for the error's message
StatusFor(error) ==
  IF error = "Product not found" THEN 404
  ELSE IF error \in {"Insufficient inventory", "Cannot release more than reserved quantity"}
       THEN 400
  ELSE 500

\* UPDATE inventory SET reserved_quantity = reserved_quantity +/- ?
Updated(row, op, amount) ==
  [row EXCEPT !.reserved_quantity = IF op = "reserve" THEN @ + amount ELSE @ - amount]

InventoryInit ==
  /\ FrontIdle
  /\ CommerceIdle
  /\ RewriteIdle
  /\ PipelineIdle
  /\ ProductsIdle
  /\ initialReserved \in 0..MaxQuantity
  /\ inventory = [p \in InventoryProducts |->
                    IF p = StockedProduct
                    THEN [quantity |-> MaxQuantity, reserved_quantity |-> initialReserved]
                    ELSE NoRow]
  /\ InventoryStart

\* POST /:productId/reserve or /release passes validation and
\* database.transaction begins: getConnection, beginTransaction.
Begin(t, op, p, amount) ==
  /\ txn[t].pc \in {"idle", "done"}
  /\ txn' = [txn EXCEPT ![t] = [NoTxn EXCEPT !.pc = "begun", !.op = op,
                                              !.product = p, !.amount = amount]]
  /\ UNCHANGED <<inventory, rowLock, initialReserved, netReserved>>
  /\ UNCHANGED <<frontVars, rewriteVars, pipelineVars, productVars, commerceVars>>

\* SELECT ... FROM inventory WHERE product_id = ? FOR UPDATE
SelectForUpdate(t) ==
  LET p == txn[t].product IN
  /\ txn[t].pc = "begun"
  /\ CanLock(t, p)
  /\ rowLock' = IF inventory[p] = NoRow THEN rowLock ELSE [rowLock EXCEPT ![p] = t]
  /\ txn' = [txn EXCEPT ![t].pc = "selected", ![t].seen = inventory[p]]
  /\ UNCHANGED <<inventory, initialReserved, netReserved>>
  /\ UNCHANGED <<frontVars, rewriteVars, pipelineVars, productVars, commerceVars>>

\* the rest of the callback: the checks on the row read, then the UPDATE
CheckAndUpdate(t) ==
  LET p == txn[t].product
      thrown == Thrown(txn[t].op, txn[t].amount, txn[t].seen)
  IN
  /\ txn[t].pc = "selected"
  /\ IF thrown # "none"
     THEN /\ txn' = [txn EXCEPT ![t].pc = "thrown", ![t].error = thrown]
          /\ UNCHANGED inventory
     ELSE /\ inventory' = [inventory EXCEPT ![p] = Updated(@, txn[t].op, txn[t].amount)]
          /\ txn' = [txn EXCEPT ![t].pc = "updated", ![t].wrote = TRUE]
  /\ UNCHANGED <<rowLock, initialReserved, netReserved>>
  /\ UNCHANGED <<frontVars, rewriteVars, pipelineVars, productVars, commerceVars>>

\* connection.commit(), connection.release(), res.json({ message: ... })
Commit(t) ==
  LET p == txn[t].product IN
  /\ txn[t].pc = "updated"
  /\ rowLock' = [rowLock EXCEPT ![p] = IF @ = t THEN "none" ELSE @]
  /\ txn' = [txn EXCEPT ![t].pc = "done", ![t].outcome = "committed", ![t].status = 200]
  /\ netReserved' = netReserved +
                      (IF txn[t].op = "reserve" THEN txn[t].amount ELSE 0 - txn[t].amount)
  /\ UNCHANGED <<inventory, initialReserved>>
  /\ UNCHANGED <<frontVars, rewriteVars, pipelineVars, productVars, commerceVars>>

\* catch: connection.rollback(), connection.release(), and the route's catch
\* block answers with the status of the error
Rollback(t) ==
  LET p == txn[t].product IN
  /\ txn[t].pc = "thrown"
  /\ rowLock' = [rowLock EXCEPT ![p] = IF @ = t THEN "none" ELSE @]
  /\ txn' = [txn EXCEPT ![t].pc = "done", ![t].outcome = "rolledBack",
                         ![t].status = StatusFor(txn[t].error)]
  /\ UNCHANGED <<inventory, initialReserved, netReserved>>
  /\ UNCHANGED <<frontVars, rewriteVars, pipelineVars, productVars, commerceVars>>

InventoryNext ==
  \/ \E t \in Txns, op \in InventoryOps, p \in InventoryProducts, amount \in Amounts :
       Begin(t, op, p, amount)
  \/ \E t \in Txns : SelectForUpdate(t)
  \/ \E t \in Txns : CheckAndUpdate(t)
  \/ \E t \in Txns : Commit(t)
  \/ \E t \in Txns : Rollback(t)

InventorySpec == InventoryInit /\ [][InventoryNext]_vars

(* ----------------- product service: routes/products.js ----------------- *)
\* what a PUT may carry for is_active: nothing, true or false
ActiveFields == {"omitted", "true", "false"}

Exists(id) == products[id] # Absent
\* WHERE p.is_active = TRUE
Active(id) == Exists(id) /\ products[id].is_active

ProdAnswer(op, id, statusCode) ==
  [op |-> op, id |-> id, status |-> statusCode, listed |-> {}]

ProductsInit ==
  /\ FrontIdle
  /\ CommerceIdle
  /\ RewriteIdle
  /\ PipelineIdle
  /\ InventoryIdle
  /\ ProductsIdle

\* router.get('/'): the products WHERE p.is_active = TRUE
ListProducts ==
  /\ prodResp' = [op |-> "LIST", id |-> 0, status |-> 200,
                  listed |-> {id \in ProductIds : Active(id)}]
  /\ UNCHANGED products
  /\ UNCHANGED <<frontVars, rewriteVars, pipelineVars, inventoryVars, commerceVars>>

\* router.get('/:id'): WHERE p.id = ? AND p.is_active = TRUE
GetProduct(id) ==
  /\ prodResp' = ProdAnswer("GET", id, IF Active(id) THEN 200 ELSE 404)
  /\ UNCHANGED products
  /\ UNCHANGED <<frontVars, rewriteVars, pipelineVars, inventoryVars, commerceVars>>

\* router.post('/'): INSERT INTO products; the id is the next of
\* AUTO_INCREMENT and is_active takes its default TRUE
CreateProduct(categoryOk) ==
  LET id == Cardinality({i \in ProductIds : Exists(i)}) + 1 IN
  /\ id \in ProductIds
  /\ IF categoryOk
     THEN /\ products' = [products EXCEPT ![id] = [is_active |-> TRUE, activeSetBy |-> "INSERT"]]
          /\ prodResp' = ProdAnswer("POST", id, 201)
     ELSE /\ prodResp' = ProdAnswer("POST", 0, 400)
          /\ UNCHANGED products
  /\ UNCHANGED <<frontVars, rewriteVars, pipelineVars, inventoryVars, commerceVars>>

\* router.put('/:id'): the row is looked up by id alone, and is_active is
\* among the fields the body may set
UpdateProduct(id, active) ==
  /\ IF ~Exists(id)
     THEN /\ prodResp' = ProdAnswer("PUT", id, 404)
          /\ UNCHANGED products
     ELSE /\ products' = [products EXCEPT ![id] =
                            [is_active |-> IF active = "omitted" THEN @.is_active
                                           ELSE active = "true",
                             activeSetBy |-> IF active = "omitted" THEN @.activeSetBy
                                             ELSE "PUT"]]
          /\ prodResp' = ProdAnswer("PUT", id, 200)
  /\ UNCHANGED <<frontVars, rewriteVars, pipelineVars, inventoryVars, commerceVars>>

\* the delete that removes the row
DeleteProductRemovesRow(id) ==
  /\ IF ~Exists(id)
     THEN /\ prodResp' = ProdAnswer("DELETE", id, 404)
          /\ UNCHANGED products
     ELSE /\ products' = [products EXCEPT ![id] = Absent]
          /\ prodResp' = ProdAnswer("DELETE", id, 200)
  /\ UNCHANGED <<frontVars, rewriteVars, pipelineVars, inventoryVars, commerceVars>>

\* router.delete('/:id'): UPDATE products SET is_active = FALSE
DeleteProduct(id) ==
  /\ IF ~Exists(id)
     THEN /\ prodResp' = ProdAnswer("DELETE", id, 404)
          /\ UNCHANGED products
     ELSE /\ products' = [products EXCEPT ![id] = [is_active |-> FALSE, activeSetBy |-> "DELETE"]]
          /\ prodResp' = ProdAnswer("DELETE", id, 200)
  /\ UNCHANGED <<frontVars, rewriteVars, pipelineVars, inventoryVars, commerceVars>>

ProductsNext ==
  \/ ListProducts
  \/ \E id \in ProductIds : GetProduct(id)
  \/ \E categoryOk \in BOOLEAN : CreateProduct(categoryOk)
  \/ \E id \in ProductIds, active \in ActiveFields : UpdateProduct(id, active)
  \/ \E id \in ProductIds : DeleteProduct(id)

ProductsSpec == ProductsInit /\ [][ProductsNext]_vars

(* ------------ product service: PUT /api/inventory/:productId ----------- *)
\* the PUT requests of one run
MaxPuts == 2

\* the request that interleaves with the PUT requests
PutTxn == "t1"

\* a field of the body that is absent
Omitted == -2

\* body.quantity and body.reserved_quantity: absent, an integer the
\* validators refuse, or an integer they accept
FieldValues == {Omitted, -1} \cup 0..MaxQuantity
PutBodies == [quantity : FieldValues, reserved_quantity : FieldValues]

\* UPDATE inventory SET <the fields of the body> WHERE product_id = ?
PutUpdated(row, b) ==
  [quantity |-> IF b.quantity = Omitted THEN row.quantity ELSE b.quantity,
   reserved_quantity |-> IF b.reserved_quantity = Omitted THEN row.reserved_quantity
                         ELSE b.reserved_quantity]

\* router.put('/:productId'): the validators, the check that the product is
\* active, the list of fields, then one UPDATE, which waits while a
\* transaction holds the lock of the row
PutInventory(p, b) ==
  /\ putCount < MaxPuts
  /\ putCount' = putCount + 1
  /\ IF b.quantity = -1 \/ b.reserved_quantity = -1
     THEN /\ putResp' = 400
          /\ UNCHANGED inventory
     ELSE IF inventory[p] = NoRow
     THEN /\ putResp' = 404
          /\ UNCHANGED inventory
     ELSE IF b.quantity = Omitted /\ b.reserved_quantity = Omitted
     THEN /\ putResp' = 400
          /\ UNCHANGED inventory
     ELSE /\ rowLock[p] = "none"
          /\ inventory' = [inventory EXCEPT ![p] = PutUpdated(@, b)]
          /\ putResp' = 200
  /\ UNCHANGED <<rowLock, txn, initialReserved, netReserved>>
  /\ UNCHANGED <<frontVars, rewriteVars, pipelineVars, productVars>>
  /\ UNCHANGED <<orderVars, authVars, cartVars>>

InventoryPutNext ==
  \/ \E op \in InventoryOps, p \in InventoryProducts, amount \in Amounts :
       Begin(PutTxn, op, p, amount)
  \/ SelectForUpdate(PutTxn)
  \/ CheckAndUpdate(PutTxn)
  \/ Commit(PutTxn)
  \/ Rollback(PutTxn)
  \/ \E p \in InventoryProducts, b \in PutBodies : PutInventory(p, b)

InventoryPutSpec == InventoryInit /\ [][InventoryPutNext]_vars

(* ------------------- order service: routes/orders.js ------------------- *)
\* an id that no row of orders ever has
UnknownOrder == 9
PatchIds == OrderIds \cup {UnknownOrder}

\* req.body.status: a value of the schema's ENUM, or no value
BodyStatuses == SchemaStatuses \cup {"missing"}

\* req.body.items.length
ItemCounts == 0..MaxItems

OrderExists(id) == id \in OrderIds /\ orders[id] # NoOrder

\* the position of a status in the order of validStatuses
StatusRank(newStatus) ==
  CASE newStatus = "pending" -> 1
    [] newStatus = "confirmed" -> 2
    [] newStatus = "processing" -> 3
    [] newStatus = "shipped" -> 4
    [] newStatus = "delivered" -> 5
    [] newStatus = "cancelled" -> 6
    [] OTHER -> 0

AcceptedBySchema(newStatus) == newStatus \in SchemaStatuses

\* validStatuses.includes(status)
Accepted(newStatus) == newStatus \in ValidStatuses

OrdAnswer(op, id, code, was, asked) ==
  [op |-> op, id |-> id, code |-> code, was |-> was, asked |-> asked]

OrdersInit ==
  /\ FrontIdle
  /\ RewriteIdle
  /\ PipelineIdle
  /\ InventoryIdle
  /\ ProductsIdle
  /\ AuthIdle
  /\ CartIdle
  /\ PutIdle
  /\ OrdersStart

\* POST /: the check of the body, then INSERT INTO orders ... 'pending'.
\* AUTO_INCREMENT gives the row the next id.
CreateOrder(n, ok) ==
  /\ creating.pc = "idle"
  /\ IF n = 0
     THEN /\ ordResp' = OrdAnswer("POST", 0, 400, NoOrder, NoOrder)
          /\ UNCHANGED <<orders, orderItems, wanted, creating>>
     ELSE /\ \E free \in OrderIds : orders[free] = NoOrder
          /\ LET id == CHOOSE i \in OrderIds :
                         /\ orders[i] = NoOrder
                         /\ \A j \in OrderIds : orders[j] = NoOrder => i <= j
             IN  IF ok
                 THEN /\ orders' = [orders EXCEPT ![id] = "pending"]
                      /\ wanted' = [wanted EXCEPT ![id] = n]
                      /\ creating' = [pc |-> "items", id |-> id]
                      /\ UNCHANGED <<orderItems, ordResp>>
                 ELSE /\ ordResp' = OrdAnswer("POST", 0, 500, NoOrder, NoOrder)
                      /\ UNCHANGED <<orders, orderItems, wanted, creating>>
  /\ UNCHANGED <<frontVars, rewriteVars, pipelineVars, inventoryVars, productVars>>
  /\ UNCHANGED <<authVars, cartVars, putVars>>

\* one turn of for (const item of items): INSERT INTO order_items; a query
\* that throws leaves the loop for the catch block, which answers 500
InsertItem(ok) ==
  LET id == creating.id IN
  /\ creating.pc = "items"
  /\ orderItems[id] < wanted[id]
  /\ IF ok
     THEN /\ orderItems' = [orderItems EXCEPT ![id] = @ + 1]
          /\ UNCHANGED <<creating, ordResp>>
     ELSE /\ creating' = NotCreating
          /\ ordResp' = OrdAnswer("POST", id, 500, NoOrder, NoOrder)
          /\ UNCHANGED orderItems
  /\ UNCHANGED <<orders, wanted>>
  /\ UNCHANGED <<frontVars, rewriteVars, pipelineVars, inventoryVars, productVars>>
  /\ UNCHANGED <<authVars, cartVars, putVars>>

\* after the loop: SELECT the new order, res.status(201)
Created ==
  LET id == creating.id IN
  /\ creating.pc = "items"
  /\ orderItems[id] = wanted[id]
  /\ creating' = NotCreating
  /\ ordResp' = OrdAnswer("POST", id, 201, NoOrder, NoOrder)
  /\ UNCHANGED <<orders, orderItems, wanted>>
  /\ UNCHANGED <<frontVars, rewriteVars, pipelineVars, inventoryVars, productVars>>
  /\ UNCHANGED <<authVars, cartVars, putVars>>

UpdateStatusForwardOnly(id, newStatus) ==
  /\ IF ~Accepted(newStatus)
     THEN /\ ordResp' = OrdAnswer("PATCH", id, 400, NoOrder, newStatus)
          /\ UNCHANGED orders
     ELSE IF ~OrderExists(id)
     THEN /\ ordResp' = OrdAnswer("PATCH", id, 404, NoOrder, newStatus)
          /\ UNCHANGED orders
     ELSE IF StatusRank(newStatus) < StatusRank(orders[id])
     THEN /\ ordResp' = OrdAnswer("PATCH", id, 400, orders[id], newStatus)
          /\ UNCHANGED orders
     ELSE /\ orders' = [orders EXCEPT ![id] = newStatus]
          /\ ordResp' = OrdAnswer("PATCH", id, 200, orders[id], newStatus)
  /\ UNCHANGED <<orderItems, wanted, creating>>
  /\ UNCHANGED <<frontVars, rewriteVars, pipelineVars, inventoryVars, productVars>>
  /\ UNCHANGED <<authVars, cartVars, putVars>>

\* PATCH /:id/status: the check against validStatuses, UPDATE orders SET
\* status = ?, 404 when no row has the id, else the order and 200
UpdateStatus(id, newStatus) ==
  /\ IF ~Accepted(newStatus)
     THEN /\ ordResp' = OrdAnswer("PATCH", id, 400, NoOrder, newStatus)
          /\ UNCHANGED orders
     ELSE IF ~OrderExists(id)
     THEN /\ ordResp' = OrdAnswer("PATCH", id, 404, NoOrder, newStatus)
          /\ UNCHANGED orders
     ELSE /\ orders' = [orders EXCEPT ![id] = newStatus]
          /\ ordResp' = OrdAnswer("PATCH", id, 200, orders[id], newStatus)
  /\ UNCHANGED <<orderItems, wanted, creating>>
  /\ UNCHANGED <<frontVars, rewriteVars, pipelineVars, inventoryVars, productVars>>
  /\ UNCHANGED <<authVars, cartVars, putVars>>

OrdersNext ==
  \/ \E n \in ItemCounts, ok \in BOOLEAN : CreateOrder(n, ok)
  \/ \E ok \in BOOLEAN : InsertItem(ok)
  \/ Created
  \/ \E id \in PatchIds, newStatus \in BodyStatuses : UpdateStatus(id, newStatus)

OrdersSpec == OrdersInit /\ [][OrdersNext]_vars

(* -------------------- user service: routes/users.js -------------------- *)
\* the routes behind authenticateToken
AuthRoutes == {"GET /profile", "PUT /profile", "GET /"}

\* tokens a client may hold: the key that signed it and whether exp has passed;
\* "garbage" is not a JWT at all
Tokens == {"env.live", "env.expired", "fallback.live", "fallback.expired",
           "other.live", "garbage"}

KeyOf(token) ==
  CASE token \in {"env.live", "env.expired"} -> "JWT_SECRET"
    [] token \in {"fallback.live", "fallback.expired"} -> "fallback_secret"
    [] token = "other.live" -> "other"
    [] OTHER -> "none"

Expired(token) == token \in {"env.expired", "fallback.expired"}

\* req.headers['authorization'] as the words between single spaces; <<>> is
\* a request without the header
Headers ==
  {<<>>, <<"Bearer">>} \cup {<<"Bearer", t>> : t \in Tokens}
     \cup {<<"Bearer", "", t>> : t \in {"env.live"}} \cup {<<t>> : t \in {"env.live"}}

\* authHeader && authHeader.split(' ')[1]; "" stands for every falsy value
Token(header) == IF Len(header) >= 2 THEN header[2] ELSE ""

\* process.env.JWT_SECRET || 'fallback_secret'
VerifyKey == IF jwtSecretSet THEN "JWT_SECRET" ELSE "fallback_secret"

\* jwt.verify(token, key, callback): err is set unless the token was signed
\* with the key and has not expired
VerifyErr(token) == KeyOf(token) # VerifyKey \/ Expired(token)

\* what the handler answers: the row found, no row, or a query that throws
HandlerCodes == {200, 404, 500}

AuthInit ==
  /\ FrontIdle
  /\ RewriteIdle
  /\ PipelineIdle
  /\ InventoryIdle
  /\ ProductsIdle
  /\ OrdersIdle
  /\ CartIdle
  /\ PutIdle
  /\ jwtSecretSet \in BOOLEAN
  /\ AuthStart

\* a request for one of the routes arrives
AuthRequest(route, header) ==
  /\ authReq.pc \in {"none", "done"}
  /\ authReq' = [route |-> route, header |-> header, pc |-> "middleware"]
  /\ authResp' = 0
  /\ reqUser' = "unset"
  /\ handlerRan' = FALSE
  /\ UNCHANGED jwtSecretSet
  /\ UNCHANGED <<frontVars, rewriteVars, pipelineVars, inventoryVars, productVars>>
  /\ UNCHANGED <<orderVars, cartVars, putVars>>

AuthenticateTokenCallsNextOnErr ==
  LET token == Token(authReq.header) IN
  /\ authReq.pc = "middleware"
  /\ IF token = ""
     THEN /\ authResp' = 401
          /\ authReq' = [authReq EXCEPT !.pc = "done"]
          /\ UNCHANGED reqUser
     ELSE /\ reqUser' = IF VerifyErr(token) THEN "unset" ELSE "payload"
          /\ authReq' = [authReq EXCEPT !.pc = "handler"]
          /\ UNCHANGED authResp
  /\ UNCHANGED <<jwtSecretSet, handlerRan>>
  /\ UNCHANGED <<frontVars, rewriteVars, pipelineVars, inventoryVars, productVars>>
  /\ UNCHANGED <<orderVars, cartVars, putVars>>

\* authenticateToken: 401 without a token, 403 when jwt.verify gives err,
\* else req.user = user and next()
AuthenticateToken ==
  LET token == Token(authReq.header) IN
  /\ authReq.pc = "middleware"
  /\ IF token = ""
     THEN /\ authResp' = 401
          /\ authReq' = [authReq EXCEPT !.pc = "done"]
          /\ UNCHANGED reqUser
     ELSE IF VerifyErr(token)
     THEN /\ authResp' = 403
          /\ authReq' = [authReq EXCEPT !.pc = "done"]
          /\ UNCHANGED reqUser
     ELSE /\ reqUser' = "payload"
          /\ authReq' = [authReq EXCEPT !.pc = "handler"]
          /\ UNCHANGED authResp
  /\ UNCHANGED <<jwtSecretSet, handlerRan>>
  /\ UNCHANGED <<frontVars, rewriteVars, pipelineVars, inventoryVars, productVars>>
  /\ UNCHANGED <<orderVars, cartVars, putVars>>

\* the route's handler: the query with req.user.userId, then its answer;
\* the list route finds rows or throws
Handler(code) ==
  /\ authReq.pc = "handler"
  /\ authReq.route = "GET /" => code # 404
  /\ handlerRan' = TRUE
  /\ authResp' = code
  /\ authReq' = [authReq EXCEPT !.pc = "done"]
  /\ UNCHANGED <<jwtSecretSet, reqUser>>
  /\ UNCHANGED <<frontVars, rewriteVars, pipelineVars, inventoryVars, productVars>>
  /\ UNCHANGED <<orderVars, cartVars, putVars>>

AuthNext ==
  \/ \E route \in AuthRoutes, header \in Headers : AuthRequest(route, header)
  \/ AuthenticateToken
  \/ \E code \in HandlerCodes : Handler(code)

AuthSpec == AuthInit /\ [][AuthNext]_vars

(* -------------------- order service: routes/cart.js -------------------- *)
MaxCartQuantity == 2
MaxAdded == 3

\* req.body.quantity: a negative number, 0 (or no value), or a positive number
CartQuantities == -1..MaxCartQuantity

RECURSIVE RowSum(_)
RowSum(rows) == IF rows = <<>> THEN 0 ELSE Head(rows) + RowSum(Tail(rows))

\* the quantities of the POST requests between their SELECT and their write
InFlight(S) ==
  LET RECURSIVE Total(_)
      Total(T) == IF T = {} THEN 0
                  ELSE LET c == CHOOSE x \in T : TRUE
                       IN  (IF cartReq[c].pc = "selected" THEN cartReq[c].quantity ELSE 0)
                             + Total(T \ {c})
  IN  Total(S)

CartAnswer(op, code) == [op |-> op, code |-> code]

\* cart_items is not among the tables of init.sql: it may or may not have a
\* unique key on (user_id, product_id)
CartInit ==
  /\ FrontIdle
  /\ RewriteIdle
  /\ PipelineIdle
  /\ InventoryIdle
  /\ ProductsIdle
  /\ OrdersIdle
  /\ AuthIdle
  /\ PutIdle
  /\ cartUnique \in BOOLEAN
  /\ CartStart

\* POST /: the check of the body, then SELECT * FROM cart_items WHERE
\* user_id = ? AND product_id = ?
AddSelect(c, quantity) ==
  /\ cartReq[c].pc = "idle"
  /\ IF quantity = 0
     THEN /\ cartResp' = CartAnswer("POST", 400)
          /\ UNCHANGED cartReq
     ELSE /\ cartAdded + InFlight(CartClients) + quantity \in (0 - MaxAdded)..MaxAdded
          /\ cartReq' = [cartReq EXCEPT ![c] = [pc |-> "selected", quantity |-> quantity,
                                                existing |-> cartRows # <<>>]]
          /\ UNCHANGED cartResp
  /\ UNCHANGED <<cartUnique, cartRows, cartAdded>>
  /\ UNCHANGED <<frontVars, rewriteVars, pipelineVars, inventoryVars, productVars>>
  /\ UNCHANGED <<orderVars, authVars, putVars>>

\* the rest of POST /: UPDATE ... quantity = quantity + ? when the SELECT
\* found a row, else INSERT; 201, or 500 when the INSERT meets the unique key
AddWrite(c) ==
  LET quantity == cartReq[c].quantity IN
  /\ cartReq[c].pc = "selected"
  /\ cartReq' = [cartReq EXCEPT ![c] = NoCartReq]
  /\ IF cartReq[c].existing
     THEN /\ cartRows' = [i \in 1..Len(cartRows) |-> cartRows[i] + quantity]
          /\ cartAdded' = cartAdded + quantity
          /\ cartResp' = CartAnswer("POST", 201)
     ELSE IF cartUnique /\ cartRows # <<>>
     THEN /\ cartResp' = CartAnswer("POST", 500)
          /\ UNCHANGED <<cartRows, cartAdded>>
     ELSE /\ cartRows' = Append(cartRows, quantity)
          /\ cartAdded' = cartAdded + quantity
          /\ cartResp' = CartAnswer("POST", 201)
  /\ UNCHANGED cartUnique
  /\ UNCHANGED <<frontVars, rewriteVars, pipelineVars, inventoryVars, productVars>>
  /\ UNCHANGED <<orderVars, authVars, putVars>>

\* PUT /:userId/:productId: 400 unless quantity >= 1, UPDATE ... quantity = ?,
\* 404 when no row matched
UpdateQuantity(quantity) ==
  /\ IF quantity < 1
     THEN /\ cartResp' = CartAnswer("PUT", 400)
          /\ UNCHANGED cartRows
     ELSE IF cartRows = <<>>
     THEN /\ cartResp' = CartAnswer("PUT", 404)
          /\ UNCHANGED cartRows
     ELSE /\ cartRows' = [i \in 1..Len(cartRows) |-> quantity]
          /\ cartResp' = CartAnswer("PUT", 200)
  /\ UNCHANGED <<cartUnique, cartReq, cartAdded>>
  /\ UNCHANGED <<frontVars, rewriteVars, pipelineVars, inventoryVars, productVars>>
  /\ UNCHANGED <<orderVars, authVars, putVars>>

\* DELETE /:userId/:productId: 404 when no row matched
RemoveItem ==
  /\ cartResp' = CartAnswer("DELETE item", IF cartRows = <<>> THEN 404 ELSE 200)
  /\ cartRows' = <<>>
  /\ UNCHANGED <<cartUnique, cartReq, cartAdded>>
  /\ UNCHANGED <<frontVars, rewriteVars, pipelineVars, inventoryVars, productVars>>
  /\ UNCHANGED <<orderVars, authVars, putVars>>

\* DELETE /:userId
ClearCart ==
  /\ cartResp' = CartAnswer("DELETE cart", 200)
  /\ cartRows' = <<>>
  /\ UNCHANGED <<cartUnique, cartReq, cartAdded>>
  /\ UNCHANGED <<frontVars, rewriteVars, pipelineVars, inventoryVars, productVars>>
  /\ UNCHANGED <<orderVars, authVars, putVars>>

\* the POST requests alone
CartAddNext ==
  \/ \E c \in CartClients, quantity \in CartQuantities : AddSelect(c, quantity)
  \/ \E c \in CartClients : AddWrite(c)

CartAddSpec == CartInit /\ [][CartAddNext]_vars

CartNext ==
  \/ CartAddNext
  \/ \E quantity \in CartQuantities : UpdateQuantity(quantity)
  \/ RemoveItem
  \/ ClearCart

CartSpec == CartInit /\ [][CartNext]_vars

(* ------------------------------ properties ----------------------------- *)
Prefix(i) == RouteTable[i].prefix
NonOverlapping(P1, P2) == ~IsUnder(P1, P2) /\ ~IsUnder(P2, P1)

\* C1: for two route prefixes that do not overlap and map to different
\* upstreams, a request whose path lies under the first is never forwarded
\* to the upstream of the second, and no answer to it comes from there.
C1_RoutingIsolation ==
  \A i, j \in 1..Len(RouteTable) :
    (NonOverlapping(Prefix(i), Prefix(j)) /\ RouteTable[i].upstream # RouteTable[j].upstream) =>
      /\ \A q \in pending : IsUnder(q.path, Prefix(i)) => q.up # RouteTable[j].upstream
      /\ (resp.from \in Upstreams /\ IsUnder(resp.path, Prefix(i))) =>
            resp.from # RouteTable[j].upstream

\* requests under /api/products and under /api/orders are in flight together
C1_Witness ==
  /\ [path |-> <<"api", "products", "7">>, up |-> "product"] \in pending
  /\ [path |-> <<"api", "orders">>, up |-> "order"] \in pending

\* C2 (as claimed): a request forwarded to an upstream that is down is
\* answered in the end, unless the upstream comes back first: it does not
\* stay pending for ever.
C2_DownUpstreamAnswered ==
  \A q \in PendingKeys :
    (q \in pending /\ mode[q.up] \in DownModes) ~> (q \notin pending \/ mode[q.up] = "up")

\* A path that no proxy mount takes and that is no endpoint of the gateway.
Unrouted(path) ==
  /\ ProxyFor(path) = "none"
  /\ path # <<>>
  /\ ~IsUnder(path, <<"health">>)

C4_LimiterAdmitsBelowMax ==
  [][\A c \in Clients :
       hits'[c] = hits[c] + 1 =>
         IF hits[c] < LimiterMax
         THEN /\ admitted'[c] = admitted[c] + 1
              /\ rejected' = rejected
              /\ \/ resp'.status # 429 /\ pending' = pending
                 \/ resp' = resp /\ pending' # pending /\ pending \subseteq pending'
         ELSE /\ admitted' = admitted
              /\ rejected'[c] = rejected[c] + 1
              /\ resp'.status = 429
              /\ resp'.from = "gateway"
              /\ LimiterApplies(resp'.path)
              /\ pending' = pending]_vars

\* a client over the limit was just refused while a request is in flight
C4_Witness ==
  /\ resp.status = 429
  /\ \E c \in Clients : hits[c] > LimiterMax /\ rejected[c] > 0
  /\ pending # {}

\* C5: within one window no client has more than LimiterMax requests
\* admitted, whatever else is in flight: of n requests counted, the first
\* min(n, LimiterMax) are admitted and the others refused.
C5_NeverOverMax ==
  \A c \in Clients :
    /\ admitted[c] <= LimiterMax
    /\ admitted[c] = IF hits[c] <= LimiterMax THEN hits[c] ELSE LimiterMax
    /\ rejected[c] = hits[c] - admitted[c]

\* one client sent more requests than the limit while requests were in
\* flight: LimiterMax of them were admitted, the others refused
C5_Witness ==
  \E c \in Clients :
    /\ hits[c] > LimiterMax
    /\ admitted[c] = LimiterMax
    /\ rejected[c] = hits[c] - LimiterMax
    /\ Cardinality(pending) >= 2

HealthRequests == {r \in Requests : r.path = <<"health">> /\ r.method = "GET"}

C7_AllIssuedBeforeAwait ==
  pollPc = "awaiting" => issued = {Services[i] : i \in 1..Len(Services)}

\* C8: what the gateway sends for a request that its upstream answered is
\* the upstream's status code and body, for every status code; the answer
\* is not one of the gateway's own.
C8_RelayedUnchanged ==
  resp.sent # NoneSent =>
    /\ resp.status = resp.sent.status
    /\ resp.body = resp.sent.body
    /\ resp.from \in Upstreams

\* an upstream's 500 has reached the client as it was sent
C8_Witness ==
  /\ resp.from \in Upstreams
  /\ resp.sent.status = 500
  /\ resp.status = 500
  /\ resp.body = resp.sent.body

\* C9 (as claimed): no response of the gateway carries internal detail.
C9_NoInternalDetail == resp.detail = "none"

Valid(t) == t \in {"default", "valid"}

\* C10 (as claimed): the gateway listens only with a configuration in which
\* every upstream's target is a URL that resolves.
C10_ListensOnlyIfValid ==
  phase = "listening" => \A u \in Upstreams : Valid(target[u])

\* C11: a forwarded request has exactly one outbound call while it is in
\* flight and none once it is answered, by the upstream or by onError: the
\* gateway never calls an upstream a second time for the same request.
C11_OneOutboundCall ==
  \A p \in ProxiedPaths :
    outbound[p] = IF \E q \in pending : q.path = p THEN 1 ELSE 0

\* a forward failed and was answered 503 while the upstream still fails,
\* and no call for it is left
C11_Witness ==
  /\ resp.status = 503
  /\ resp.from \in Upstreams
  /\ mode[resp.from] = "failing"
  /\ outbound[resp.path] = 0
  /\ \A q \in pending : q.path # resp.path

\* Requests the gateway answers itself: by the error handler, by a route.
OwnProbes ==
  { [method |-> "POST", path |-> <<>>, bodyOk |-> FALSE, throws |-> FALSE],
    [method |-> "GET", path |-> <<"health">>, bodyOk |-> TRUE, throws |-> FALSE] }

\* A request the gateway forwards.
ForwardedProbes ==
  { [method |-> "GET", path |-> <<"api", "users">>, bodyOk |-> TRUE, throws |-> FALSE] }

\* the process runs on, and each of the probes, sent after the step, is
\* handled as it would have been before it
SameOutcomes(probes) ==
  /\ phase' = "listening"
  /\ mode' = mode
  /\ nodeEnv' = nodeEnv
  /\ \A r \in probes :
       Chain(r.method, r.path, r.bodyOk, r.throws)' = Chain(r.method, r.path, r.bodyOk, r.throws)

C13_RewriteIsIdentity == upstreamPath # NoPath => upstreamPath = inboundPath

\* a path with segments after the prefix was rewritten and sent
C13_Witness ==
  /\ upstreamPath # NoPath
  /\ Len(inboundPath) > 2
  /\ IsUnder(inboundPath, <<"api", "inventory">>)

\* C15: the steps of Deploy to Production are executed only in a build for
\* production whose approval was granted; in a build without a granted
\* approval no stage after the approval runs and production keeps its
\* version.
C15_ProductionNeedsApproval ==
  /\ "Deploy to Production" \in ran =>
       (params.ENVIRONMENT = "production" /\ approval = "granted")
  /\ approval # "granted" =>
       /\ ran \cap {"Deploy to Production", "Production Tests", "Performance Tests"} = {}
       /\ deployed["production"] = "previous"

\* a build for production was approved and has deployed
C15_Witness ==
  /\ "Deploy to Production" \in ran
  /\ approval = "granted"
  /\ deployed["production"] = "new"

\* C16: a finished build that was started with FORCE_DEPLOY and whose unit
\* or integration tests failed has built the images and deployed.
C16_ForceDeployOverridesTests ==
  (pipePc = "done" /\ params.FORCE_DEPLOY /\ failedAt \in TestStages) =>
    /\ "Build Docker Images" \in ran
    /\ ran \cap {"Deploy to Staging", "Deploy to Production"} # {}

\* C17: a finished build whose production deployment or production tests
\* failed has put production back to the version it had.
C17_RolledBackOnFailure ==
  (pipePc = "done" /\ failedAt \in {"Deploy to Production", "Production Tests"}) =>
    deployed["production"] = "previous"

\* C18: a reserve whose product has no inventory row is answered 404, and
\* one that asks for more than quantity - reserved_quantity of the row it
\* read is answered 400 "Insufficient inventory"; such a request has written
\* nothing, its transaction is rolled back, and at its rollback the row is
\* the row it read.
C18_RejectedReserveHasNoEffect ==
  /\ [](\A t \in Txns :
          (txn[t].pc = "done" /\ txn[t].op = "reserve") =>
            /\ txn[t].seen = NoRow => txn[t].status = 404
            /\ (txn[t].seen # NoRow /\
                 txn[t].amount > txn[t].seen.quantity - txn[t].seen.reserved_quantity) =>
                  (txn[t].status = 400 /\ txn[t].error = "Insufficient inventory")
            /\ txn[t].status \in {400, 404} =>
                  (~txn[t].wrote /\ txn[t].outcome = "rolledBack"))
  /\ [][\A t \in Txns :
          (txn[t].op = "reserve" /\ txn[t].pc = "thrown" /\ txn'[t].pc = "done") =>
            /\ inventory' = inventory
            /\ inventory'[txn[t].product] = txn[t].seen
            /\ rowLock'[txn[t].product] # t]_vars

\* one reserve was refused for lack of stock and another for an unknown
\* product
C18_Witness ==
  /\ txn["t1"].pc = "done" /\ txn["t1"].op = "reserve" /\ txn["t1"].status = 400
  /\ txn["t1"].seen.reserved_quantity > 0
  /\ txn["t1"].amount <= txn["t1"].seen.quantity
  /\ txn["t2"].pc = "done" /\ txn["t2"].op = "reserve" /\ txn["t2"].status = 404

\* C20: however reserve and release requests for one product interleave,
\* reserved_quantity stays between 0 and quantity, and whenever no request
\* has an update that it has not yet committed, reserved_quantity is its
\* initial value plus the units of the reserves answered 200 minus the
\* units of the releases answered 200.
C20_ReservedWithinStock ==
  LET row == inventory[StockedProduct] IN
  /\ row.reserved_quantity >= 0
  /\ row.reserved_quantity <= row.quantity
  /\ (\A t \in Txns : txn[t].pc # "updated") =>
       row.reserved_quantity = initialReserved + netReserved

\* a reserve and a release for the same product were under way together:
\* one has committed while the other, begun before that, waits for its turn
C20_Witness ==
  /\ txn["t1"].pc = "done" /\ txn["t1"].op = "reserve" /\ txn["t1"].status = 200
  /\ txn["t2"].pc = "selected" /\ txn["t2"].op = "release"
  /\ txn["t2"].product = StockedProduct
  /\ txn["t2"].seen.reserved_quantity = initialReserved + txn["t1"].amount

\* C19: a DELETE answered 200 leaves the row in the table, inactive; as long
\* as no later statement has set is_active of the row, it is inactive, GET
\* answers 404 for it and no listing holds it; and no row ever leaves the
\* table.
C19_SoftDelete ==
  /\ [](/\ (prodResp.op = "DELETE" /\ prodResp.status = 200) =>
             (Exists(prodResp.id) /\ products[prodResp.id].activeSetBy = "DELETE")
         /\ \A id \in ProductIds :
              (Exists(id) /\ products[id].activeSetBy = "DELETE") =>
                /\ ~products[id].is_active
                /\ (prodResp.op = "GET" /\ prodResp.id = id) => prodResp.status = 404
                /\ prodResp.op = "LIST" => id \notin prodResp.listed)
  /\ [][\A id \in ProductIds : Exists(id) => Exists(id)']_vars

\* a product was deleted and then asked for
C19_Witness ==
  /\ prodResp.op = "GET"
  /\ prodResp.status = 404
  /\ Exists(prodResp.id)
  /\ products[prodResp.id].activeSetBy = "DELETE"

\* C21: order status updates are direct writes with no transition ordering:
\* whatever the current status of an order, PATCH /:id/status with any of the
\* six accepted values answers 200 and writes that value, backward moves such
\* as delivered -> pending included; no move between accepted statuses is
\* refused.
C21_AnyTransitionAccepted ==
  [][\A id \in OrderIds, s \in ValidStatuses :
       (OrderExists(id) /\ UpdateStatus(id, s)) =>
         /\ ordResp' = OrdAnswer("PATCH", id, 200, orders[id], s)
         /\ orders'[id] = s]_vars

\* the delivered sample order was moved back to pending
C21_Witness ==
  /\ ordResp = OrdAnswer("PATCH", SeedOrder, 200, "delivered", "pending")
  /\ orders[SeedOrder] = "pending"

\* C22: every order has one of the six accepted statuses; a row that the API
\* inserts starts as pending; an update with any other value, the schema's
\* refunded included, answers 400 and changes no order; an update with an
\* accepted value for an id that has no row answers 404 and changes no order.
C22_StatusWithinAccepted ==
  /\ [](\A id \in OrderIds : orders[id] \in ValidStatuses \cup {NoOrder})
  /\ [][/\ \A id \in OrderIds :
             (orders[id] = NoOrder /\ orders'[id] # NoOrder) => orders'[id] = "pending"
        /\ \A id \in PatchIds, s \in BodyStatuses \ ValidStatuses :
             UpdateStatus(id, s) =>
               (ordResp' = OrdAnswer("PATCH", id, 400, NoOrder, s) /\ orders' = orders)
        /\ \A id \in PatchIds, s \in ValidStatuses :
             (~OrderExists(id) /\ UpdateStatus(id, s)) =>
               (ordResp' = OrdAnswer("PATCH", id, 404, NoOrder, s) /\ orders' = orders)]_vars

\* an order created through the API was moved on to shipped and then refused
\* the status refunded
C22_Witness ==
  /\ ordResp = OrdAnswer("PATCH", NewOrder, 400, NoOrder, "refunded")
  /\ orders[NewOrder] = "shipped"
  /\ creating = NotCreating

\* C27: order creation is atomic: once POST /api/orders has answered, an order
\* row exists only together with all of its item rows, and an order whose
\* creation was answered with an error has no row.
C27_OrderCreationAtomic ==
  \A id \in OrderIds :
    (OrderExists(id) /\ ~(creating.pc = "items" /\ creating.id = id)) =>
      /\ orderItems[id] = wanted[id]
      /\ ~(ordResp.op = "POST" /\ ordResp.id = id /\ ordResp.code = 500)

C24_ReservedWithinQuantity ==
  \A p \in InventoryProducts :
    inventory[p] # NoRow =>
      /\ inventory[p].reserved_quantity <= inventory[p].quantity
      /\ AvailableQuantity(inventory[p]) >= 0

\* C25: under any interleaving of concurrent POST /api/cart requests for one
\* (user_id, product_id), the cart has at most one row for the pair, and once
\* the requests are answered its quantity is the sum of the quantities added:
\* no duplicate row, no lost addition.
C25_OneRowWithTheSum ==
  /\ Len(cartRows) <= 1
  /\ (\A c \in CartClients : cartReq[c].pc = "idle") => RowSum(cartRows) = cartAdded

\* C26: after any sequence of add, update quantity, remove item and clear,
\* every cart item present has quantity >= 1.
C26_QuantityAtLeastOne ==
  \A i \in 1..Len(cartRows) : cartRows[i] >= 1

====
